---- MODULE Spec2Model ----
(***************************************************************************)
(* A model of two parts of rtg:                                            *)
(*   - rtg/module/schedule.py : the learning rate schedules (Noam,         *)
(*     InverseSqrt) and ScheduledOptimizer.step();                         *)
(*   - rtg/pipeline.py : Pipeline.pre_checks, decode_eval_file,            *)
(*     tune_decoder_params, run_tests and run.                             *)
(* SpecOpt is the specification of the optimizer and SpecNoam the one of   *)
(* the optimizer with a Noam schedule; Spec is the specification of        *)
(* run_tests with its tuning, SpecDecode the one of decode_eval_file on    *)
(* its own, and SpecRun the one of run().  Each leaves the other parts'    *)
(* variables at their initial values.                                      *)
(***************************************************************************)
EXTENDS Integers, Sequences, FiniteSets, TLC

VARIABLES
  \* ---- rtg/module/schedule.py : ScheduledOptimizer
  start_step,     \* ScheduledOptimizer.start_step
  schedule,       \* ScheduledOptimizer.schedule (a schedule record, or None)
  world_size,     \* dtorch.world_size, fixed for the process
  param_groups,   \* optimizer.param_groups: the sequence of the groups' 'lr'
  _step,          \* ScheduledOptimizer._step
  _rate,          \* ScheduledOptimizer._rate
  calls,          \* history: number of step() calls made so far
  opt_updates,    \* history: number of optimizer.step() invocations
  seen_lr,        \* history: the groups' 'lr' when optimizer.step() last ran
  opt_raised      \* whether the last optimizer.step(closure) raised

VARIABLES
  \* ---- rtg/pipeline.py : the files
  tune_src,       \* the file tune_src: [exists, lines]
  tune_ref,       \* whether the file tune_ref exists
  scores_json,    \* tune_dir/scores.json: [exists, data], data the JSON object
  out_files,      \* tune_dir/<name>.out.tsv: name -> [lines, q], q the BLEU
                  \* score its text gets against the reference
  bleu_files,     \* names with a <name>.out.tsv.detok.lc.bleu score file
  \* ---- Pipeline.tune_decoder_params : the call in progress
  pc,             \* "idle", "loop" (inside the try), "returned", "raised"
  exc,            \* the exception the call raised, "" if none
  args,           \* the arguments: [trials, suggested, strategy]
  memory,         \* the dict memory: key -> score
  grouped,        \* grouped_ens, in insertion order: <<[ens, args], ...>>
  gi,             \* the group the outer loop is at
  ai,             \* the (b_s, lp_a) the inner loop is at, 0: no decoder yet
  best_params,    \* best_params of line 139, <<>> before
  result,         \* the dict returned, <<>> before
  \* ---- history of the call in progress
  file_at_start,  \* scores.json when the call started
  load_ok,        \* whether lines 104-107 completed
  loaded,         \* memory after lines 103-107
  trial_list,     \* zip(beam_sizes, ensembles, lp_alphas), as keys
  n_random,       \* how many of them were drawn at random
  entered_try,    \* whether line 127 was reached
  decoders_built, \* the ensemble sizes Decoder.new was called with
  evaluated,      \* the trials whose evaluation completed: <<[key, score]>>
  last_eval,      \* the last decode_eval_file call
  writes,         \* writes of scores.json by this call
  last_written,   \* the memory last written to scores.json
  prev_written    \* the memory the calls before this one last wrote

tuneVars == <<tune_src, tune_ref, scores_json, out_files, bleu_files, pc, exc,
              args, memory, grouped, gi, ai, best_params, result,
              file_at_start, load_ok, loaded, trial_list, n_random,
              entered_try, decoders_built, evaluated, last_eval, writes,
              last_written, prev_written>>

VARIABLES
  \* ---- Pipeline.run_tests
  rt_pc,          \* "idle", "tuning" (inside line 173), "done", "raised"
  rt_exc,         \* the exception run_tests raised, "" if none
  conf,           \* exp.config['tester']['decoder'], in memory:
                  \* [has_tune, tuned, dec], dec the other entries
  disk_conf,      \* the same, as exp.persist_state() last wrote it
  test_files,     \* test_dir: case name -> [out, bleu, err], err "" if none
  test_links,     \* test_dir: the links <name>.src, <name>.ref made
  test_params,    \* <<beam_size, ensemble, lp_alpha>> of line 181-183
  cases_done,     \* history: the cases the loop of line 196 went through
  cases_failed    \* history: those of them whose try block raised

testVars == <<rt_pc, rt_exc, conf, disk_conf, test_files, test_links,
              test_params, cases_done, cases_failed>>

optVars == <<start_step, schedule, world_size, param_groups, _step, _rate,
             calls, opt_updates, seen_lr, opt_raised>>

VARIABLES
  \* ---- Pipeline.run
  run_pc,         \* "idle", "pre_process", "train", "tests" (before the call
                  \* of that phase), "run_tests" (inside it), "returned",
                  \* "raised"
  run_exc,        \* the exception run() raised, "" if none
  exp_config,     \* exp.work_dir, exp.config and the files it names:
                  \* [work_dir, prep, trainer, tester, suit, cases, script]
  started         \* history: the phases run() has started, in order

runVars == <<run_pc, run_exc, exp_config, started>>

-----------------------------------------------------------------------------
(* Bounds of the optimizer model.                                          *)
MaxCalls == 4
MaxStart == 2
MaxGroups == 2
MaxWarmup == 4

-----------------------------------------------------------------------------
(***************************************************************************)
(* Real numbers.  The schedules take square roots, so a real x >= 0 is     *)
(* represented exactly by its square, the rational x^2 = n/d, as the pair  *)
(* <<n, d>> in lowest terms (d > 0).  Floating point rounding is not       *)
(* modelled.  The sentinel -1 of _rate is the pair <<-1, 1>>, which no     *)
(* square equals.                                                          *)
(***************************************************************************)
RECURSIVE GCD(_, _)
GCD(a, b) == IF b = 0 THEN a ELSE GCD(b, a % b)

Norm(n, d) == IF n = 0 THEN <<0, 1>> ELSE <<n \div GCD(n, d), d \div GCD(n, d)>>

RInt(k) == <<k * k, 1>>                      \* the integer k >= 0
RRat(n, d) == Norm(n * n, d * d)             \* the rational n/d >= 0
RPowNegHalf(k) == Norm(1, k)                 \* k ** -0.5
RPowHalf(k) == <<k, 1>>                      \* k ** 0.5
RPowNeg15(k) == Norm(1, k * k * k)           \* k ** -1.5
RMul(x, y) == Norm(x[1] * y[1], x[2] * y[2])
RDiv(x, y) == Norm(x[1] * y[2], x[2] * y[1])
RLess(x, y) == x[1] * y[2] < y[1] * x[2]
RMin(x, y) == IF RLess(y, x) THEN y ELSE x   \* Python's min(x, y)

MinusOne == <<-1, 1>>

-----------------------------------------------------------------------------
(* The schedules.                                                          *)
None == [kind |-> "None"]

NoamSchedule(w, c, d) ==
  [kind |-> "noam", warmup |-> w, constant |-> c, model_dim |-> d]

InverseSqrtSchedule(w, p) ==
  [kind |-> "inverse_sqrt", warmup |-> w, peak_lr |-> p]

\* Noam.rate with warmup ** -0.5 in place of warmup ** -1.5.
NoamRate_warmupHalf(sch, step) ==
  RMul(RMul(RInt(sch.constant), RPowNegHalf(sch.model_dim)),
       RMin(RPowNegHalf(step), RMul(RInt(step), RPowNegHalf(sch.warmup))))

\* Noam.rate
NoamRate(sch, step) ==
  RMul(RMul(RInt(sch.constant), RPowNegHalf(sch.model_dim)),
       RMin(RPowNegHalf(step), RMul(RInt(step), RPowNeg15(sch.warmup))))

\* InverseSqrt.rate
InverseSqrtRate(sch, step) ==
  RMin(RDiv(RMul(RInt(step), sch.peak_lr), RInt(sch.warmup)),
       RMul(RMul(sch.peak_lr, RPowHalf(sch.warmup)), RPowNegHalf(step)))

\* schedule.rate(step): the dispatch to the variant
Rate(sch, step) ==
  IF sch.kind = "noam" THEN NoamRate(sch, step) ELSE InverseSqrtRate(sch, step)

\* The schedules, world sizes and configured rates the optimizer is built with.
Schedules == {None, NoamSchedule(2, 2, 4), InverseSqrtSchedule(3, RRat(1, 10))}

\* The Noam schedules of every warmup up to MaxWarmup: constant and
\* model_dim are ints of the configuration, a model_dim is positive.
NoamSchedules ==
  {NoamSchedule(w, c, d) : w \in 1 .. MaxWarmup, c \in {0, 1, 2}, d \in {1, 4}}
WorldSizes == {1, 2, 4}
ConfiguredLrs == {RInt(0), RRat(1, 100), RRat(1, 10)}

GroupLists == UNION {[1 .. n -> ConfiguredLrs] : n \in 0 .. MaxGroups}

-----------------------------------------------------------------------------
(* ScheduledOptimizer.step, piece by piece.                                *)

\* A step() that leaves the counter alone when no schedule is attached.
IncrStep_onlyScheduled(s) == IF schedule = None THEN s ELSE s + 1

\* self._step += 1
IncrStep(s) == s + 1

\* The harmful alternative: rate *= dtorch.world_size
ScaledRate_multiplied(sch, step, ws) ==
  IF ws > 1 THEN RMul(Rate(sch, step), RInt(ws)) ELSE Rate(sch, step)

\* rate = self.schedule.rate(step=self._step); divided by world_size if > 1
ScaledRate(sch, step, ws) ==
  IF ws > 1 THEN RDiv(Rate(sch, step), RInt(ws)) ELSE Rate(sch, step)

\* for p in self.param_groups: p['lr'] = rate
AssignLr(groups, rate) == [i \in DOMAIN groups |-> rate]

\* The loop without its break: the rate of the last group is read back.
FirstGroupLr_last(groups, old) ==
  IF Len(groups) > 0 THEN groups[Len(groups)] ELSE old

\* for param_group in self.param_groups: self._rate = param_group['lr']; break
FirstGroupLr(groups, old) == IF Len(groups) > 0 THEN groups[1] ELSE old

\* optimizer.step(closure) called first, before the rates are assigned.
LrAtUpdate_before(before, after) == before

\* self.optimizer.step(closure=closure) is the last statement of step(): the
\* 'lr' the underlying update finds in the groups, given the groups before
\* the call of step() and after lines 64-80.
LrAtUpdate(before, after) == after

\* ScheduledOptimizer.__post_init__, for every way of constructing it
InitOpt ==
  /\ start_step \in 0 .. MaxStart
  /\ schedule \in Schedules
  /\ world_size \in WorldSizes
  /\ param_groups \in GroupLists
  /\ _step = start_step
  /\ _rate = MinusOne
  /\ calls = 0
  /\ opt_updates = 0
  /\ seen_lr = <<>>
  /\ opt_raised = FALSE

\* ScheduledOptimizer.step(closure): the whole call.  The underlying
\* optimizer.step(closure) may raise (the closure is the caller's code); the
\* counter and the rates are set before it runs.
Step ==
  /\ calls < MaxCalls
  /\ calls' = calls + 1
  /\ _step' = IncrStep(_step)
  /\ IF schedule # None
       THEN /\ param_groups' = AssignLr(param_groups,
                                        ScaledRate(schedule, _step', world_size))
            /\ _rate' = ScaledRate(schedule, _step', world_size)
       ELSE /\ param_groups' = param_groups
            /\ _rate' = FirstGroupLr(param_groups, _rate)
  /\ opt_updates' = opt_updates + 1
  /\ seen_lr' = LrAtUpdate(param_groups, param_groups')
  /\ \E raised \in BOOLEAN : opt_raised' = raised
  /\ UNCHANGED <<start_step, schedule, world_size>>

-----------------------------------------------------------------------------
(***************************************************************************)
(* rtg/pipeline.py.  A trial key is the tuple <<beam_size, ensemble,       *)
(* lp_alpha>>.  lp_alpha is a float rounded to 2 decimals and is           *)
(* represented by its number of hundredths (0.25 is 25); a caller-suggested*)
(* alpha, not yet rounded, is given in thousandths.  A BLEU score is a     *)
(* member of Scores.                                                       *)
(***************************************************************************)

(* Bounds of the pipeline model.                                           *)
MaxTrials == 2        \* largest value of the argument trials
MaxLines == 1         \* largest line count of a source file
LastSavedStep == 1    \* the step exp.get_last_saved_model() returns

BeamSizes == {1, 2}       \* the range beam_size=[lo, hi] sampled from
Ensembles == {1, 2}       \* the range ensemble=[lo, hi] sampled from
LpAlphas == {0, 50}       \* values of round(random.uniform(lo, hi), 2)
Scores == {10, 20}        \* values of bleu.score
Keys == BeamSizes \X Ensembles \X LpAlphas

\* The lists a caller passes as suggested (alpha in thousandths).
SuggestedLists == {<<>>, << <<2, 1, 504>> >>}

-----------------------------------------------------------------------------
(* Text.  str() and eval() work on a text as the sequence of its           *)
(* characters.                                                             *)
DigitChars == <<"0", "1", "2", "3", "4", "5", "6", "7", "8", "9">>

RECURSIVE IntChars(_)
\* str(n) for an int n >= 0
IntChars(n) ==
  IF n < 10 THEN <<DigitChars[n + 1]>>
  ELSE IntChars(n \div 10) \o <<DigitChars[(n % 10) + 1]>>

\* repr(x) for a float x >= 0 with at most 2 decimals, given in hundredths
FloatChars(h) ==
  IntChars(h \div 100) \o <<".">> \o
    (IF h % 100 = 0 THEN <<"0">>
     ELSE IF h % 10 = 0 THEN <<DigitChars[((h % 100) \div 10) + 1]>>
     ELSE <<DigitChars[((h % 100) \div 10) + 1], DigitChars[(h % 10) + 1]>>)

\* str(k) for a key tuple: "(2, 1, 0.5)"
StrKey(k) ==
  <<"(">> \o IntChars(k[1]) \o <<",", " ">> \o IntChars(k[2]) \o <<",", " ">>
    \o FloatChars(k[3]) \o <<")">>

DigitValue(c) == CHOOSE d \in 0 .. 9 : DigitChars[d + 1] = c

RECURSIVE ParseInt(_)
\* the int literal cs
ParseInt(cs) ==
  IF Len(cs) = 0 THEN 0
  ELSE 10 * ParseInt(SubSeq(cs, 1, Len(cs) - 1)) + DigitValue(cs[Len(cs)])

\* the position of the first c in cs, Len(cs) + 1 if there is none
IndexOf(cs, c) ==
  IF \E i \in 1 .. Len(cs) : cs[i] = c
    THEN CHOOSE i \in 1 .. Len(cs) : cs[i] = c /\ \A j \in 1 .. (i - 1) : cs[j] # c
    ELSE Len(cs) + 1

\* the float literal cs, in hundredths
ParseFloat(cs) ==
  LET dot == IndexOf(cs, ".")
      frac == SubSeq(cs, dot + 1, Len(cs))
  IN  100 * ParseInt(SubSeq(cs, 1, dot - 1))
        + (IF Len(frac) = 0 THEN 0
           ELSE IF Len(frac) = 1 THEN 10 * ParseInt(frac)
           ELSE ParseInt(SubSeq(frac, 1, 2)))

\* cs without its leading blanks
RECURSIVE LStrip(_)
LStrip(cs) == IF Len(cs) > 0 /\ cs[1] = " " THEN LStrip(Tail(cs)) ELSE cs

\* eval(s) for the text s of a 3-tuple literal
EvalKey(s) ==
  LET inner == SubSeq(s, 2, Len(s) - 1)
      c1 == IndexOf(inner, ",")
      rest == SubSeq(inner, c1 + 1, Len(inner))
      c2 == IndexOf(rest, ",")
  IN  <<ParseInt(LStrip(SubSeq(inner, 1, c1 - 1))),
        ParseInt(LStrip(SubSeq(rest, 1, c2 - 1))),
        ParseFloat(LStrip(SubSeq(rest, c2 + 1, Len(rest))))>>

\* f'{lp_a:.2f}'
Fmt2f(h) ==
  ToString(h \div 100) \o "." \o ToString((h % 100) \div 10) \o ToString(h % 10)

\* f'tune_step{step}_beam{b_s}_ens{ens}_lp{lp_a:.2f}'
TrialName(step, b_s, ens, lp_a) ==
  "tune_step" \o ToString(step) \o "_beam" \o ToString(b_s) \o "_ens"
    \o ToString(ens) \o "_lp" \o Fmt2f(lp_a)

\* round(x, 2) of a float given in thousandths, in hundredths.  The inputs of
\* the model have no last digit 5, where the float's binary value decides.
Round2(t) == IF t % 10 < 5 THEN t \div 10 ELSE (t \div 10) + 1

-----------------------------------------------------------------------------
(* Files and dicts.                                                        *)
NoFile == [exists |-> FALSE, lines |-> 0, q |-> 0]
NoEval == [called |-> FALSE]
EmptyDict == <<>>

\* memory[k] = v
DictSet(m, k, v) == [x \in (DOMAIN m) \cup {k} |-> IF x = k THEN v ELSE m[x]]

\* tune_dir / f'{name}.out.tsv', as decode_eval_file finds it
OutFile(name) ==
  IF name \in DOMAIN out_files
    THEN [exists |-> TRUE, lines |-> out_files[name].lines, q |-> out_files[name].q]
    ELSE NoFile

\* The attributes of a dict that lines 105-107 may ask for.
DictAttrs == {"items", "keys", "values", "get"}

\* A load that leaves the file unread and the memory empty.
LoadMemo_ignoresFile(file) == [ok |-> TRUE, memory |-> EmptyDict]

\* {eval(k) : v for k, v in data.item()}: a dict has no attribute item
LoadMemo(file) ==
  IF ~file.exists THEN [ok |-> TRUE, memory |-> EmptyDict]
  ELSE IF "item" \in DictAttrs
    THEN [ok |-> TRUE,
          memory |-> [k \in {EvalKey(t) : t \in DOMAIN file.data}
                        |-> file.data[StrKey(k)]]]
    ELSE [ok |-> FALSE, memory |-> EmptyDict]

\* A finally clause that writes the memory as it was loaded, not as it is.
WriteScores_stale(m) ==
  [exists |-> TRUE,
   data |-> [t \in {StrKey(k) : k \in DOMAIN loaded}
               |-> loaded[CHOOSE k \in DOMAIN loaded : StrKey(k) = t]]]

\* data = {str(k): v for k, v in memory.items()}; write_lines(json.dumps(data))
WriteScores(m) ==
  [exists |-> TRUE,
   data |-> [t \in {StrKey(k) : k \in DOMAIN m}
               |-> m[CHOOSE k \in DOMAIN m : StrKey(k) = t]]]

\* suggested = [(x[0], x[1], round(x[2], 2)) for x in suggested]
NormalizeSuggested(sg) ==
  [i \in DOMAIN sg |-> <<sg[i][1], sg[i][2], Round2(sg[i][3])>>]

\* The filter with its condition inverted: x in memory.
SuggestedNew_onlyKnown(sg, m) == SelectSeq(sg, LAMBDA x : x \in DOMAIN m)

\* suggested_new = [x for x in suggested if x not in memory]
SuggestedNew(sg, m) == SelectSeq(sg, LAMBDA x : x \notin DOMAIN m)

\* new_trials = trials - len(memory); that many are drawn if it is > 0
NewTrials(trials, m) ==
  IF trials - Cardinality(DOMAIN m) > 0 THEN trials - Cardinality(DOMAIN m) ELSE 0

\* A grouping that opens a group for every trial.
RECURSIVE GroupTrials_perTrial(_, _)
GroupTrials_perTrial(ts, acc) ==
  IF ts = <<>> THEN acc
  ELSE GroupTrials_perTrial(Tail(ts),
         Append(acc, [ens |-> Head(ts)[2],
                      args |-> << <<Head(ts)[1], Head(ts)[3]>> >>]))

RECURSIVE GroupTrials(_, _)
\* for b, ens, l in zip(...): grouped_ens[ens].append((b, l))
GroupTrials(ts, acc) ==
  IF ts = <<>> THEN acc
  ELSE LET t == Head(ts)
           at == {i \in 1 .. Len(acc) : acc[i].ens = t[2]}
       IN  IF at = {}
             THEN GroupTrials(Tail(ts),
                    Append(acc, [ens |-> t[2], args |-> << <<t[1], t[3]>> >>]))
             ELSE GroupTrials(Tail(ts),
                    [acc EXCEPT ![CHOOSE i \in at : TRUE].args =
                                   Append(@, <<t[1], t[3]>>)])

\* suggest_batch_size
SuggestBatchSize(beam_size) == 20000 \div beam_size

-----------------------------------------------------------------------------
(***************************************************************************)
(* Pipeline.decode_eval_file(decoder, src_file, out_file, ref_file, ...).  *)
(* out is the output file before the call, src the source file.  A file    *)
(* has size 0 exactly when it has no line.  The decoder and the scorer     *)
(* are external: a decode writes one line per source line, or raises and   *)
(* leaves any number of lines, up to the source's, behind; scoring gives   *)
(* the score of the output's text, or raises.                              *)
(***************************************************************************)

\* The resume test without the st_size > 0 conjunct.
SkipDecode_noSize(out, src) == out.exists /\ out.lines = src.lines

\* out_file.exists() and out_file.stat().st_size > 0
\*     and line_count(out_file) == line_count(src_file)
SkipDecode(out, src) == out.exists /\ out.lines > 0 /\ out.lines = src.lines

\* self.evaluate_file(out_file, ref_file): the score, and the score file
EvaluateOutcomes(o) ==
  {[o EXCEPT !.scored = TRUE, !.score = o.out.q],
   [o EXCEPT !.exc = "ScoreError"]}

\* The score of the text a decode that raised has left: one value stands
\* for all, the text being whatever was written until then.
PartScore == CHOOSE q \in Scores : \A r \in Scores : q <= r

\* with IO.reader(src_file) as inp, IO.writer(out_file) as out:
\*     decoder.decode_file(inp, out, **dec_args)
DecodeOutcomes(o, src) ==
  IF ~src.exists THEN {[o EXCEPT !.exc = "FileNotFoundError"]}
  ELSE {[o EXCEPT !.decoded = TRUE,
                  !.out = [exists |-> TRUE, lines |-> src.lines, q |-> q]]
          : q \in Scores}
       \cup
       {[o EXCEPT !.decoded = TRUE, !.exc = "DecodeError",
                  !.out = [exists |-> TRUE, lines |-> n, q |-> PartScore]]
          : n \in 0 .. src.lines}

\* Every way one call can go: [branch, decoded, out, scored, score, exc]
DecodeEvalOutcomes(out, src) ==
  LET o == [branch |-> "none", decoded |-> FALSE, out |-> out,
            scored |-> FALSE, score |-> 0, exc |-> ""]
  IN  IF out.exists /\ out.lines > 0 /\ ~src.exists
        THEN {[o EXCEPT !.exc = "FileNotFoundError"]}   \* line_count(src_file)
      ELSE IF SkipDecode(out, src)
        THEN EvaluateOutcomes([o EXCEPT !.branch = "skip"])
      ELSE UNION {IF d.exc = "" THEN EvaluateOutcomes(d) ELSE {d}
                    : d \in DecodeOutcomes([o EXCEPT !.branch = "decode"], src)}

\* What the history keeps of a call.
EvalRecord(name, out, src, batch_size, o) ==
  [called |-> TRUE, name |-> name, pre |-> out, src |-> src,
   batch_size |-> batch_size, branch |-> o.branch, decoded |-> o.decoded,
   scored |-> o.scored, exc |-> o.exc]

-----------------------------------------------------------------------------
(* Pipeline.tune_decoder_params.                                           *)

\* (a, b) < (c, d) for tuples of numbers of one length
RECURSIVE TupleLess(_, _)
TupleLess(x, y) ==
  IF Len(x) = 0 THEN FALSE
  ELSE IF Head(x) # Head(y) THEN Head(x) < Head(y)
  ELSE TupleLess(Tail(x), Tail(y))

RECURSIVE SortedItemsDesc(_)
\* sorted(memory.items(), key=lambda x: x[0], reverse=True)
SortedItemsDesc(m) ==
  IF DOMAIN m = {} THEN <<>>
  ELSE LET top == CHOOSE k \in DOMAIN m :
                    \A j \in DOMAIN m : j = k \/ TupleLess(j, k)
       IN  << <<top, m[top]>> >>
             \o SortedItemsDesc([k \in (DOMAIN m) \ {top} |-> m[k]])

\* dict(zip(names, values))
ZipDict(names, values) ==
  LET n == IF Len(names) < Len(values) THEN Len(names) ELSE Len(values)
  IN  [x \in {names[i] : i \in 1 .. n}
         |-> values[CHOOSE i \in 1 .. n : names[i] = x]]

\* tune_src is missing, empty, or has MaxLines lines.
InitTune ==
  /\ tune_src \in {NoFile} \cup {[exists |-> TRUE, lines |-> n, q |-> 0]
                                    : n \in {0, MaxLines}}
  /\ tune_ref \in BOOLEAN
  /\ scores_json = [exists |-> FALSE, data |-> EmptyDict]
  /\ out_files = EmptyDict
  /\ bleu_files = {}
  /\ pc = "idle"
  /\ exc = ""
  /\ args = [trials |-> 0, suggested |-> <<>>, strategy |-> "random"]
  /\ memory = EmptyDict
  /\ grouped = <<>>
  /\ gi = 1
  /\ ai = 0
  /\ best_params = <<>>
  /\ result = <<>>
  /\ file_at_start = scores_json
  /\ load_ok = FALSE
  /\ loaded = EmptyDict
  /\ trial_list = <<>>
  /\ n_random = 0
  /\ entered_try = FALSE
  /\ decoders_built = <<>>
  /\ evaluated = <<>>
  /\ last_eval = NoEval
  /\ writes = 0
  /\ last_written = EmptyDict
  /\ prev_written = EmptyDict

\* An except clause in place of the finally: it writes only when raising.
Finally_onlyOnError(m) ==
  IF pc' = "raised"
    THEN /\ scores_json' = WriteScores(m)
         /\ writes' = writes + 1
         /\ last_written' = m
    ELSE UNCHANGED <<scores_json, writes, last_written>>

\* The finally clause, lines 141-144, with m the memory at that point.
Finally(m) ==
  /\ scores_json' = WriteScores(m)
  /\ writes' = writes + 1
  /\ last_written' = m

\* Lines 88-126: the arguments, the precondition checks, the load of the
\* memo, the trial list and its grouping, up to the try.  The caller passes
\* the one supported strategy, 'random'.
TuneStart ==
  /\ pc \in {"idle", "returned", "raised"}
  /\ \E trials \in 0 .. MaxTrials, suggested \in SuggestedLists :
       LET ld == LoadMemo(scores_json)
           sg == SuggestedNew(NormalizeSuggested(suggested), ld.memory)
       IN  /\ args' = [trials |-> trials, suggested |-> suggested,
                       strategy |-> "random"]
           /\ file_at_start' = scores_json
           /\ gi' = 1
           /\ ai' = 0
           /\ best_params' = <<>>
           /\ result' = <<>>
           /\ decoders_built' = <<>>
           /\ evaluated' = <<>>
           /\ last_eval' = NoEval
           /\ writes' = 0
           /\ prev_written' = last_written
           /\ UNCHANGED <<tune_src, tune_ref, scores_json, out_files,
                          bleu_files, last_written>>
           /\ IF ~(args'.strategy = "random" /\ tune_src.exists /\ tune_ref)
                THEN \* an assert of lines 97-100 fails
                     /\ pc' = "raised"
                     /\ exc' = "AssertionError"
                     /\ memory' = EmptyDict
                     /\ load_ok' = FALSE
                     /\ loaded' = EmptyDict
                     /\ trial_list' = <<>>
                     /\ n_random' = 0
                     /\ grouped' = <<>>
                     /\ entered_try' = FALSE
              ELSE IF ~ld.ok
                THEN \* line 107 raises
                     /\ pc' = "raised"
                     /\ exc' = "AttributeError"
                     /\ memory' = EmptyDict
                     /\ load_ok' = FALSE
                     /\ loaded' = EmptyDict
                     /\ trial_list' = <<>>
                     /\ n_random' = 0
                     /\ grouped' = <<>>
                     /\ entered_try' = FALSE
              ELSE \E rnd \in [1 .. NewTrials(trials, ld.memory) -> Keys] :
                     /\ pc' = "loop"
                     /\ exc' = ""
                     /\ memory' = ld.memory
                     /\ load_ok' = TRUE
                     /\ loaded' = ld.memory
                     /\ trial_list' = sg \o rnd
                     /\ n_random' = Len(rnd)
                     /\ grouped' = GroupTrials(sg \o rnd, <<>>)
                     /\ entered_try' = TRUE

\* Line 129: decoder = Decoder.new(exp, ensemble=ens), which may raise.
TuneNewDecoder ==
  /\ pc = "loop"
  /\ gi <= Len(grouped)
  /\ ai = 0
  /\ decoders_built' = Append(decoders_built, grouped[gi].ens)
  /\ \/ /\ ai' = 1
        /\ UNCHANGED <<pc, exc, scores_json, writes, last_written>>
     \/ /\ pc' = "raised"
        /\ exc' = "DecoderError"
        /\ Finally(memory)
        /\ UNCHANGED ai
  /\ UNCHANGED <<tune_src, tune_ref, out_files, bleu_files, args, memory,
                 grouped, gi, best_params, result, file_at_start,
                 load_ok, loaded, trial_list, n_random, entered_try,
                 evaluated, last_eval, prev_written>>

\* Lines 130-138: one (b_s, lp_a) of the group, decoded and scored.
TuneTrial ==
  /\ pc = "loop"
  /\ gi <= Len(grouped)
  /\ ai >= 1
  /\ LET ens == grouped[gi].ens
         b_s == grouped[gi].args[ai][1]
         lp_a == grouped[gi].args[ai][2]
         name == TrialName(LastSavedStep, b_s, ens, lp_a)
     IN  \E o \in DecodeEvalOutcomes(OutFile(name), tune_src) :
           /\ last_eval' = EvalRecord(name, OutFile(name), tune_src,
                                      SuggestBatchSize(b_s), o)
           /\ out_files' = IF o.out.exists
                             THEN DictSet(out_files, name,
                                          [lines |-> o.out.lines, q |-> o.out.q])
                             ELSE out_files
           /\ bleu_files' = IF o.scored THEN bleu_files \cup {name}
                            ELSE bleu_files
           /\ IF o.exc = ""
                THEN /\ memory' = DictSet(memory, <<b_s, ens, lp_a>>, o.score)
                     /\ evaluated' = Append(evaluated,
                                       [key |-> <<b_s, ens, lp_a>>,
                                        score |-> o.score])
                     /\ IF ai < Len(grouped[gi].args)
                          THEN ai' = ai + 1 /\ gi' = gi
                          ELSE ai' = 0 /\ gi' = gi + 1
                     /\ UNCHANGED <<pc, exc, scores_json, writes, last_written>>
                ELSE /\ pc' = "raised"
                     /\ exc' = o.exc
                     /\ Finally(memory)
                     /\ UNCHANGED <<memory, evaluated, gi, ai>>
  /\ UNCHANGED <<tune_src, tune_ref, args, grouped, best_params, result,
                 file_at_start, load_ok, loaded, trial_list, n_random,
                 entered_try, decoders_built, prev_written>>

\* Lines 139-140, after the loops: the selection and the return.
TuneSelect ==
  /\ pc = "loop"
  /\ gi > Len(grouped)
  /\ IF DOMAIN memory = {}
       THEN \* sorted(...)[0] of an empty list
            /\ pc' = "raised"
            /\ exc' = "IndexError"
            /\ UNCHANGED <<best_params, result>>
       ELSE /\ pc' = "returned"
            /\ best_params' = SortedItemsDesc(memory)[1]
            /\ result' = ZipDict(<<"beam_size", "ensemble", "lp_alpha">>,
                                 best_params')
            /\ UNCHANGED exc
  /\ Finally(memory)
  /\ UNCHANGED <<tune_src, tune_ref, out_files, bleu_files, args, memory,
                 grouped, gi, ai, file_at_start, load_ok, loaded,
                 trial_list, n_random, entered_try, decoders_built, evaluated,
                 last_eval, prev_written>>

-----------------------------------------------------------------------------
(* Pipeline.run_tests.                                                     *)

\* exp.config['tester']['suit']: name -> (source, reference), and the files.
\* Case "A" names a source file that does not exist, case "B" is valid.
Suit ==
  << [name |-> "A", src |-> NoFile, ref |-> TRUE],
     [name |-> "B", src |-> [exists |-> TRUE, lines |-> 1, q |-> 0],
      ref |-> TRUE] >>

\* The attributes of a Pipeline: its fields and its methods.
PipelineAttrs ==
  {"exp", "script", "pre_checks", "detokenize", "evaluate_file",
   "decode_eval_file", "tune_decoder_params", "suggest_batch_size",
   "run_tests", "run"}

\* d.get(k, default)
DictGet(d, k, default) == IF k \in DOMAIN d THEN d[k] ELSE default

RECURSIVE DictUpdate(_, _)
\* d.update(e)
DictUpdate(d, e) ==
  IF DOMAIN e = {} THEN d
  ELSE LET k == CHOOSE x \in DOMAIN e : TRUE
       IN  DictUpdate(DictSet(d, k, e[k]), [x \in (DOMAIN e) \ {k} |-> e[x]])

NoArtifacts == [out |-> NoFile, bleu |-> FALSE, err |-> ""]

\* Lines 198-212 for the case c: the links, decode_eval_file going the way
\* o, and the except clause.  t is [files, links, failed].
CaseStep(t, c, o) ==
  LET src_link == c.name \o ".src"
      ref_link == c.name \o ".ref"
      \* link.exists() follows the link
      src_there == src_link \in t.links /\ c.src.exists
      ref_there == ref_link \in t.links /\ c.ref
      \* link.symlink_to(orig) raises when the link itself is there
      src_clash == ~src_there /\ src_link \in t.links
      ref_clash == ~src_clash /\ ~ref_there /\ ref_link \in t.links
      links == IF src_clash THEN t.links
               ELSE IF ref_clash THEN t.links \cup {src_link}
               ELSE t.links \cup {src_link, ref_link}
      old == t.files[c.name]
      new == IF src_clash \/ ref_clash
               THEN [old EXCEPT !.err = "FileExistsError"]
               ELSE [out |-> o.out,
                     bleu |-> old.bleu \/ o.scored,
                     err |-> IF o.exc # "" THEN o.exc ELSE old.err]
  IN  [files |-> [t.files EXCEPT ![c.name] = new], links |-> links,
       failed |-> IF src_clash \/ ref_clash \/ o.exc # ""
                    THEN Append(t.failed, c.name) ELSE t.failed]

RECURSIVE RunCases(_, _, _)
\* Lines 196-212: the loop over the suit from case i on, os[i] the way the
\* decode_eval_file call of case i goes.
RunCases(t, i, os) ==
  IF i > Len(Suit) THEN t ELSE RunCases(CaseStep(t, Suit[i], os[i]), i + 1, os)

\* The ways the decode_eval_file calls of one loop can go.
SuitOutcomes(files) ==
  LET all == UNION {DecodeEvalOutcomes(files[Suit[i].name].out, Suit[i].src)
                      : i \in DOMAIN Suit}
  IN  {os \in [DOMAIN Suit -> all] :
         \A i \in DOMAIN Suit :
           os[i] \in DecodeEvalOutcomes(files[Suit[i].name].out, Suit[i].src)}

InitTests ==
  /\ rt_pc = "idle"
  /\ rt_exc = ""
  /\ conf \in {[has_tune |-> t, tuned |-> FALSE, dec |-> EmptyDict]
                 : t \in BOOLEAN}
  /\ disk_conf = conf
  /\ test_files = [n \in {Suit[i].name : i \in DOMAIN Suit} |-> NoArtifacts]
  /\ test_links = {}
  /\ test_params = <<>>
  /\ cases_done = <<>>
  /\ cases_failed = <<>>

\* Lines 149-173 of run_tests with a 'tune' section not yet tuned: the call
\* of tune_decoder_params, which TuneStart begins.
RunTestsTune ==
  /\ rt_pc \in {"idle", "done", "raised"}
  /\ conf.has_tune /\ ~conf.tuned
  /\ TuneStart
  /\ rt_pc' = "tuning"
  /\ rt_exc' = ""
  /\ test_params' = <<>>
  /\ cases_done' = <<>>
  /\ cases_failed' = <<>>
  /\ UNCHANGED <<conf, disk_conf, test_files, test_links>>

\* The rest of run_tests: lines 174-212 once tune_decoder_params is back, or
\* the whole of it when there is nothing to tune.  An exception of
\* tune_decoder_params goes through run_tests.  Line 184 asks the Pipeline
\* for suggested_batch_size before anything of the test run is done.
RunTestsRest ==
  /\ \/ rt_pc = "tuning" /\ pc \in {"returned", "raised"}
     \/ rt_pc \in {"idle", "done", "raised"} /\ ~(conf.has_tune /\ ~conf.tuned)
  /\ IF rt_pc = "tuning" /\ pc = "raised"
       THEN /\ rt_pc' = "raised"
            /\ rt_exc' = exc
            /\ UNCHANGED <<conf, disk_conf, test_files, test_links,
                           test_params, cases_done, cases_failed>>
       ELSE LET tuned_now == rt_pc = "tuning"
                \* best_params, and dec_args after lines 174-176
                best == IF tuned_now THEN result ELSE conf.dec
                dec == IF tuned_now THEN DictUpdate(conf.dec, result) ELSE conf.dec
                beam_size == DictGet(best, "beam_size", 4)
                ensemble == DictGet(best, "ensemble", 5)
                lp_alpha == DictGet(best, "lp_alpha", 0)
                conf1 == [conf EXCEPT !.tuned = @ \/ tuned_now, !.dec = dec]
            IN  IF "suggested_batch_size" \notin PipelineAttrs
                  THEN \* line 184 raises
                       /\ rt_pc' = "raised"
                       /\ rt_exc' = "AttributeError: suggested_batch_size"
                       /\ conf' = conf1
                       /\ test_params' = <<beam_size, ensemble, lp_alpha>>
                       /\ cases_done' = <<>>
                       /\ cases_failed' = <<>>
                       /\ UNCHANGED <<disk_conf, test_files, test_links>>
                  ELSE LET batch_size ==
                             DictGet(best, "batch_size",
                                     SuggestBatchSize(beam_size))
                           conf2 == [conf1 EXCEPT !.dec =
                                       DictUpdate(dec,
                                         [k \in {"beam_size", "lp_alpha",
                                                 "ensemble", "batch_size"} |->
                                            CASE k = "beam_size" -> beam_size
                                              [] k = "lp_alpha" -> lp_alpha
                                              [] k = "ensemble" -> ensemble
                                              [] OTHER -> batch_size])]
                       IN  /\ conf' = conf2
                           /\ disk_conf' = conf2
                           /\ test_params' = <<beam_size, ensemble, lp_alpha>>
                           /\ \/ \* Decoder.new of line 195 raises
                                 /\ rt_pc' = "raised"
                                 /\ rt_exc' = "DecoderError"
                                 /\ cases_done' = <<>>
                                 /\ cases_failed' = <<>>
                                 /\ UNCHANGED <<test_files, test_links>>
                              \/ \E os \in SuitOutcomes(test_files) :
                                   LET t == RunCases([files |-> test_files,
                                                      links |-> test_links,
                                                      failed |-> <<>>],
                                                     1, os)
                                   IN  /\ rt_pc' = "done"
                                       /\ rt_exc' = ""
                                       /\ test_files' = t.files
                                       /\ test_links' = t.links
                                       /\ cases_done' =
                                            [i \in DOMAIN Suit |-> Suit[i].name]
                                       /\ cases_failed' = t.failed
  /\ UNCHANGED tuneVars

\* Experiment(self.exp.work_dir, read_only=True) of run(): the config is
\* read again from what was persisted.
ReloadConfig ==
  /\ rt_pc \in {"done", "raised"}
  /\ conf # disk_conf
  /\ conf' = disk_conf
  /\ UNCHANGED <<rt_pc, rt_exc, disk_conf, test_files, test_links,
                 test_params, cases_done, cases_failed>>
  /\ UNCHANGED tuneVars

-----------------------------------------------------------------------------
(***************************************************************************)
(* Pipeline.run and Pipeline.pre_checks.  exp_config holds what pre_checks *)
(* looks at: whether exp.work_dir exists, whether the sections 'prep',     *)
(* 'trainer' and 'tester' of the config are there, the entry 'suit' of     *)
(* 'tester' ("absent": no such key, "None", or "present"), the cases of    *)
(* the suit with their source and reference files, and whether the script  *)
(* detok-n-bleu.sh is found.  exp.pre_process() and exp.train() are        *)
(* external: each returns or raises.                                       *)
(***************************************************************************)

\* The files a case of the suit can name: missing, or with that many lines.
CaseSrcs == {[exists |-> FALSE, lines |-> 0], [exists |-> TRUE, lines |-> 1]}
CaseRefs == CaseSrcs \cup {[exists |-> TRUE, lines |-> 2]}

\* The suits of the config: the two cases of Suit, with any such files.
ConfigSuits == [1 .. 2 -> [src : CaseSrcs, ref : CaseRefs]]

\* The configurations run() is started with.
ExpConfigs ==
  {[work_dir |-> w, prep |-> p, trainer |-> t, tester |-> e,
    suit |-> "present", cases |-> cs, script |-> sc]
     : w \in BOOLEAN, p \in BOOLEAN, t \in BOOLEAN, e \in BOOLEAN,
       cs \in ConfigSuits, sc \in BOOLEAN}
  \cup
  {[work_dir |-> w, prep |-> p, trainer |-> t, tester |-> e,
    suit |-> su, cases |-> <<>>, script |-> sc]
     : w \in BOOLEAN, p \in BOOLEAN, t \in BOOLEAN, e \in BOOLEAN,
       su \in {"absent", "None"}, sc \in BOOLEAN}

\* Lines 38-40 for the cases from i on: the exception raised, "" if none.
\* The assert on the line counts is left out.
RECURSIVE CheckCases_noLineCount(_, _)
CheckCases_noLineCount(cs, i) ==
  IF i > Len(cs) THEN ""
  ELSE IF ~cs[i].src.exists THEN "AssertionError"
  ELSE IF ~cs[i].ref.exists THEN "AssertionError"
  ELSE CheckCases_noLineCount(cs, i + 1)

RECURSIVE CheckCases(_, _)
\* for name, (src, ref) in suit.items(): assert src.exists();
\*     assert ref.exists(); assert line_count(src) == line_count(ref)
CheckCases(cs, i) ==
  IF i > Len(cs) THEN ""
  ELSE IF ~cs[i].src.exists THEN "AssertionError"
  ELSE IF ~cs[i].ref.exists THEN "AssertionError"
  ELSE IF cs[i].src.lines # cs[i].ref.lines THEN "AssertionError"
  ELSE CheckCases(cs, i + 1)

\* pre_checks: the exception it raises, "" if it returns
PreChecks(c) ==
  IF ~c.work_dir THEN "AssertionError"
  ELSE IF ~c.prep THEN "AssertionError"
  ELSE IF ~c.trainer THEN "AssertionError"
  ELSE IF ~c.tester THEN "AssertionError"
  ELSE IF c.suit = "absent" THEN "KeyError"        \* config['tester']['suit']
  ELSE IF c.suit = "None" THEN "AssertionError"
  ELSE IF CheckCases(c.cases, 1) # "" THEN CheckCases(c.cases, 1)
  ELSE IF ~c.script THEN "AssertionError"
  ELSE ""

\* run() is not in use: run_tests is called on its own.
IdleRun ==
  /\ run_pc = "idle"
  /\ run_exc = ""
  /\ exp_config = [work_dir |-> TRUE, prep |-> TRUE, trainer |-> TRUE,
                   tester |-> TRUE, suit |-> "present", cases |-> <<>>,
                   script |-> TRUE]
  /\ started = <<>>

InitRun ==
  /\ run_pc = "idle"
  /\ run_exc = ""
  /\ exp_config \in ExpConfigs
  /\ started = <<>>

\* Lines 215-216: run() up to the return of pre_checks.
RunPreChecks ==
  /\ run_pc = "idle"
  /\ started' = <<>>
  /\ IF PreChecks(exp_config) # ""
       THEN run_pc' = "raised" /\ run_exc' = PreChecks(exp_config)
       ELSE run_pc' = "pre_process" /\ run_exc' = ""
  /\ UNCHANGED exp_config

\* Line 217: self.exp.pre_process()
RunPreProcess ==
  /\ run_pc = "pre_process"
  /\ started' = Append(started, "pre_process")
  /\ \/ run_pc' = "train" /\ UNCHANGED run_exc
     \/ run_pc' = "raised" /\ run_exc' = "PreProcessError"
  /\ UNCHANGED exp_config

\* Line 218: self.exp.train()
RunTrain ==
  /\ run_pc = "train"
  /\ started' = Append(started, "train")
  /\ \/ run_pc' = "tests" /\ UNCHANGED run_exc
     \/ run_pc' = "raised" /\ run_exc' = "TrainError"
  /\ UNCHANGED exp_config

\* Lines 220-221: the experiment is read again from what was persisted and
\* run_tests is called with it.
RunCallTests ==
  /\ run_pc = "tests"
  /\ started' = Append(started, "run_tests")
  /\ run_pc' = "run_tests"
  /\ conf' = disk_conf
  /\ rt_pc' = "idle"
  /\ rt_exc' = ""
  /\ UNCHANGED <<run_exc, exp_config, disk_conf, test_files, test_links,
                 test_params, cases_done, cases_failed>>
  /\ UNCHANGED tuneVars

\* run_tests is back: run() returns, or raises what run_tests raised.
RunReturn ==
  /\ run_pc = "run_tests"
  /\ rt_pc \in {"done", "raised"}
  /\ run_pc' = IF rt_pc = "raised" THEN "raised" ELSE "returned"
  /\ run_exc' = rt_exc
  /\ UNCHANGED <<exp_config, started>>

-----------------------------------------------------------------------------
(* The specifications.                                                     *)
vars == <<optVars, tuneVars, testVars, runVars>>

\* The optimizer as it is when the pipeline runs: built, never stepped.
IdleOpt ==
  /\ start_step = 0
  /\ schedule = None
  /\ world_size = 1
  /\ param_groups = <<>>
  /\ _step = 0
  /\ _rate = MinusOne
  /\ calls = 0
  /\ opt_updates = 0
  /\ seen_lr = <<>>
  /\ opt_raised = FALSE

\* The pipeline as it is while the optimizer trains: nothing tuned yet.
IdleTune ==
  /\ InitTune
  /\ tune_src = NoFile
  /\ tune_ref = FALSE
  /\ InitTests
  /\ ~conf.has_tune

Init == InitTune /\ InitTests /\ IdleOpt /\ IdleRun

Next ==
  \/ RunTestsTune /\ UNCHANGED <<optVars, runVars>>
  \/ TuneNewDecoder /\ UNCHANGED <<optVars, testVars, runVars>>
  \/ TuneTrial /\ UNCHANGED <<optVars, testVars, runVars>>
  \/ TuneSelect /\ UNCHANGED <<optVars, testVars, runVars>>
  \/ RunTestsRest /\ UNCHANGED <<optVars, runVars>>
  \/ ReloadConfig /\ UNCHANGED <<optVars, runVars>>

Spec == Init /\ [][Next]_vars

OptInit == InitOpt /\ IdleTune /\ IdleRun

OptNext == Step /\ UNCHANGED <<tuneVars, testVars, runVars>>

SpecOpt == OptInit /\ [][OptNext]_vars

\* Pipeline.run: the checks, the phases, and run_tests called once per run.
RunInit == InitTune /\ InitTests /\ IdleOpt /\ InitRun

RunNext ==
  \/ RunPreChecks /\ UNCHANGED <<optVars, tuneVars, testVars>>
  \/ RunPreProcess /\ UNCHANGED <<optVars, tuneVars, testVars>>
  \/ RunTrain /\ UNCHANGED <<optVars, tuneVars, testVars>>
  \/ RunCallTests /\ UNCHANGED optVars
  \/ run_pc = "run_tests" /\ rt_pc = "idle" /\ RunTestsTune
       /\ UNCHANGED <<optVars, runVars>>
  \/ run_pc = "run_tests" /\ TuneNewDecoder
       /\ UNCHANGED <<optVars, testVars, runVars>>
  \/ run_pc = "run_tests" /\ TuneTrial
       /\ UNCHANGED <<optVars, testVars, runVars>>
  \/ run_pc = "run_tests" /\ TuneSelect
       /\ UNCHANGED <<optVars, testVars, runVars>>
  \/ run_pc = "run_tests" /\ rt_pc \in {"idle", "tuning"} /\ RunTestsRest
       /\ UNCHANGED <<optVars, runVars>>
  \/ RunReturn /\ UNCHANGED <<optVars, tuneVars, testVars>>

SpecRun == RunInit /\ [][RunNext]_vars

\* The optimizer of get_vaswani_etal_opt (one worker, Adam with lr=0), with
\* any of the Noam schedules: step() applies Noam.rate to step after step.
NoamInit ==
  /\ start_step \in 0 .. MaxStart
  /\ schedule \in NoamSchedules
  /\ world_size = 1
  /\ param_groups = <<RInt(0)>>
  /\ _step = start_step
  /\ _rate = MinusOne
  /\ calls = 0
  /\ opt_updates = 0
  /\ seen_lr = <<>>
  /\ opt_raised = FALSE
  /\ IdleTune
  /\ IdleRun

SpecNoam == NoamInit /\ [][OptNext]_vars

\* decode_eval_file on its own, called again and again for output files
\* that start in any state an earlier (possibly interrupted) process can
\* have left them in, with a source file that is missing, empty or not.
DecodeNames == {"A.out.tsv", "B.out.tsv"}

DecodeInit ==
  /\ IdleOpt
  /\ IdleRun
  /\ InitTests
  /\ ~conf.has_tune
  /\ InitTune
  /\ tune_ref

DecodeStart ==
  /\ pc = "idle"
  /\ \E present \in SUBSET DecodeNames :
       \E f \in [present -> [lines : 0 .. MaxLines, q : Scores]] :
         out_files' = f
  /\ pc' = "decode_eval_file"
  /\ UNCHANGED <<tune_src, tune_ref, scores_json, bleu_files, exc, args,
                 memory, grouped, gi, ai, best_params, result, file_at_start,
                 load_ok, loaded, trial_list, n_random, entered_try,
                 decoders_built, evaluated, last_eval, writes, last_written,
                 prev_written>>

DecodeEvalCall ==
  /\ pc = "decode_eval_file"
  /\ \E name \in DecodeNames :
       \E o \in DecodeEvalOutcomes(OutFile(name), tune_src) :
         /\ last_eval' = EvalRecord(name, OutFile(name), tune_src,
                                    SuggestBatchSize(1), o)
         /\ out_files' = IF o.out.exists
                           THEN DictSet(out_files, name,
                                        [lines |-> o.out.lines, q |-> o.out.q])
                           ELSE out_files
         /\ bleu_files' = IF o.scored THEN bleu_files \cup {name}
                          ELSE bleu_files
  /\ UNCHANGED <<tune_src, tune_ref, scores_json, pc, exc, args, memory,
                 grouped, gi, ai, best_params, result, file_at_start, load_ok,
                 loaded, trial_list, n_random, entered_try, decoders_built,
                 evaluated, writes, last_written, prev_written>>

DecodeNext ==
  \/ DecodeStart /\ UNCHANGED <<optVars, testVars, runVars>>
  \/ DecodeEvalCall /\ UNCHANGED <<optVars, testVars, runVars>>

SpecDecode == DecodeInit /\ [][DecodeNext]_vars

-----------------------------------------------------------------------------
(* The claims about ScheduledOptimizer, under SpecOpt.                     *)

\* C1: every step() call, with or without a schedule, for any world_size,
\* whether or not the underlying update raises, increases the counter by
\* exactly 1: curr_step is start_step plus the number of calls so far.
C1_StepCounter == _step = start_step + calls

C1_Witness ==
  /\ calls = 3
  /\ schedule = None
  /\ world_size = 4
  /\ start_step = 2
  /\ _step = 5

\* C2: with a schedule attached, after every step() call curr_lr and the
\* 'lr' of every parameter group equal schedule.rate(counter) for the new
\* counter, divided by world_size when it is > 1 and as it is when it is 1;
\* world_size = 4 gives R / 4, and the rate is never R * world_size.
C2_AppliedRate ==
  (schedule # None /\ calls > 0) =>
    LET R == Rate(schedule, _step)
        expected == IF world_size > 1 THEN RDiv(R, RInt(world_size)) ELSE R
    IN  /\ _rate = expected
        /\ \A i \in DOMAIN param_groups : param_groups[i] = expected
        /\ world_size = 4 => RMul(_rate, RInt(4)) = R
        /\ world_size > 1 => _rate # RMul(R, RInt(world_size))

C2_Witness ==
  /\ schedule = NoamSchedule(2, 2, 4)
  /\ world_size = 4
  /\ start_step = 0
  /\ calls = 1
  /\ Len(param_groups) = 2
  /\ param_groups[1] = <<1, 128>>
  /\ param_groups[2] = <<1, 128>>
  /\ _rate = <<1, 128>>

\* C13: with no schedule attached, a step() call leaves the 'lr' of every
\* parameter group as it was, sets the current rate to the 'lr' of the
\* first parameter group, invokes the underlying optimizer's update and
\* advances the counter by one.
C13_NoScheduleFrame ==
  [][schedule = None =>
       /\ param_groups' = param_groups
       /\ Len(param_groups) > 0 => _rate' = param_groups[1]
       /\ opt_updates' = opt_updates + 1
       /\ _step' = _step + 1]_vars

C13_Witness ==
  /\ schedule = None
  /\ calls = 2
  /\ Len(param_groups) = 2
  /\ param_groups[1] = RRat(1, 100)
  /\ param_groups[2] = RRat(1, 10)
  /\ _rate = RRat(1, 100)
  /\ opt_updates = 2
  /\ _step = start_step + 2

\* C15: with a schedule attached, when the underlying optimizer's update
\* runs in a step() call, every parameter group carries the rate computed
\* from the incremented counter (divided by world_size when it is > 1),
\* which is also the current rate, and not the rate of the step before.
C15_UpdateSeesNewRate ==
  (schedule # None /\ calls > 0) =>
    /\ Len(seen_lr) = Len(param_groups)
    /\ \A i \in DOMAIN seen_lr :
         /\ seen_lr[i] = ScaledRate(schedule, _step, world_size)
         /\ seen_lr[i] = _rate
         /\ _step >= 2 => seen_lr[i] # ScaledRate(schedule, _step - 1, world_size)

C15_Witness ==
  /\ schedule = InverseSqrtSchedule(3, RRat(1, 10))
  /\ world_size = 2
  /\ start_step = 0
  /\ calls = 2
  /\ Len(seen_lr) = 2
  /\ seen_lr[1] = RDiv(InverseSqrtRate(schedule, 2), RInt(2))
  /\ seen_lr[2] = seen_lr[1]

\* C14 is checked under SpecNoam, where _rate is Noam.rate(_step).
\* What C14 says of two steps in a row, s = _step and s + 1 = _step', and of
\* the rate at warmup: the rate rises up to warmup, falls after it, and is
\* below the rate at warmup everywhere else.
NoamShape ==
  LET w == schedule.warmup
      peak == NoamRate(schedule, w)
  IN  /\ (calls >= 1 /\ _step < w) => RLess(_rate, _rate')
      /\ (calls >= 1 /\ _step >= w) => RLess(_rate', _rate)
      /\ _step' # w => RLess(_rate', peak)
      /\ _step' = w => _rate' = peak

\* C14, as claimed: for every Noam schedule with warmup >= 1 and all
\* steps >= 1, the rate is strictly increasing for step < warmup, strictly
\* decreasing for step > warmup, and has its maximum exactly at warmup.
C14_NoamShapeAll == [][NoamShape]_vars

\* C14, amended: the same, for the Noam schedules whose constant is > 0.
C14_NoamShapePositive == [][schedule.constant > 0 => NoamShape]_vars

C14_Witness ==
  /\ schedule = NoamSchedule(3, 2, 4)
  /\ start_step = 0
  /\ calls = 4
  /\ _step = 4
  /\ _rate = NoamRate(schedule, 4)
  /\ RLess(_rate, NoamRate(schedule, 3))
  /\ RLess(NoamRate(schedule, 2), NoamRate(schedule, 3))

-----------------------------------------------------------------------------
(* The claims about tune_decoder_params, under Spec, and about            *)
(* decode_eval_file, under SpecDecode.                                     *)

\* The trials in the order the loops of lines 128-138 take them.
RECURSIVE Plan(_)
Plan(gs) ==
  IF gs = <<>> THEN <<>>
  ELSE [i \in DOMAIN Head(gs).args |->
          <<Head(gs).args[i][1], Head(gs).ens, Head(gs).args[i][2]>>]
       \o Plan(Tail(gs))

\* The score of the last completed evaluation of key k.
LastScore(k) ==
  evaluated[CHOOSE i \in DOMAIN evaluated :
              /\ evaluated[i].key = k
              /\ \A j \in DOMAIN evaluated : evaluated[j].key = k => j <= i].score

\* C3: when tune_decoder_params returns, the selected trial is a trial of
\* the memo whose score is the maximum of the memo's scores.
C3_SelectsMaxScore ==
  pc = "returned" =>
    /\ best_params[1] \in DOMAIN memory
    /\ memory[best_params[1]] = best_params[2]
    /\ \A k \in DOMAIN memory : memory[k] <= best_params[2]

\* C4: a call that finds scores.json with K >= 1 entries and is asked for
\* trials N > K loads the K entries without failing and draws exactly
\* N - K random trials.
C4_Resumes ==
  (pc # "idle" /\ exc # "AssertionError" /\ file_at_start.exists
     /\ Cardinality(DOMAIN file_at_start.data) >= 1
     /\ args.trials > Cardinality(DOMAIN file_at_start.data)) =>
    /\ load_ok
    /\ Cardinality(DOMAIN loaded) = Cardinality(DOMAIN file_at_start.data)
    /\ n_random = args.trials - Cardinality(DOMAIN file_at_start.data)

\* C5: when the evaluation of a trial raises, the search stops at that
\* trial (the trials completed are exactly those before it in the order of
\* the loops), the call raises that exception, and scores.json then holds
\* every completed trial with the score of its (last) evaluation, and every
\* entry loaded at the start.
C5_FailureKeepsCompleted ==
  (pc = "raised" /\ exc \in {"DecodeError", "ScoreError", "FileNotFoundError"}) =>
    /\ last_eval.called /\ last_eval.exc = exc
    /\ Len(evaluated) < Len(Plan(grouped))
    /\ \A i \in DOMAIN evaluated : evaluated[i].key = Plan(grouped)[i]
    /\ LET f == Plan(grouped)[Len(evaluated) + 1]
       IN  last_eval.name = TrialName(LastSavedStep, f[1], f[2], f[3])
    /\ scores_json.exists
    /\ \A i \in DOMAIN evaluated :
         /\ StrKey(evaluated[i].key) \in DOMAIN scores_json.data
         /\ scores_json.data[StrKey(evaluated[i].key)] = LastScore(evaluated[i].key)
    /\ \A k \in DOMAIN loaded : StrKey(k) \in DOMAIN scores_json.data

C5_Witness ==
  /\ pc = "raised"
  /\ exc = "DecodeError"
  /\ Len(evaluated) = 2
  /\ evaluated[1].key # evaluated[2].key
  /\ Cardinality(DOMAIN scores_json.data) = 2

\* C6, as claimed: every exit of tune_decoder_params, by return or by an
\* exception raised anywhere in it, comes after a write of the current memo.
C6_EveryExitWrites ==
  pc \in {"returned", "raised"} =>
    /\ writes = 1
    /\ scores_json.exists
    /\ DOMAIN scores_json.data = {StrKey(k) : k \in DOMAIN memory}

\* C6, amended: an exit once the try of line 127 is entered (Decoder.new or
\* an evaluation raising, the selection raising, the return) comes after
\* exactly one write of the current memo; an exit before it (a failed
\* assert of lines 97-100, the load of lines 104-107 raising) writes
\* nothing and leaves scores.json as it was.
C6_ExitsOfTryWrite ==
  pc \in {"returned", "raised"} =>
    IF entered_try
      THEN /\ writes = 1
           /\ scores_json.exists
           /\ DOMAIN scores_json.data = {StrKey(k) : k \in DOMAIN memory}
           /\ \A k \in DOMAIN memory : scores_json.data[StrKey(k)] = memory[k]
      ELSE /\ exc \in {"AssertionError", "AttributeError"}
           /\ writes = 0
           /\ scores_json = file_at_start

C6_Witness ==
  /\ pc = "returned"
  /\ entered_try
  /\ writes = 1
  /\ Cardinality(DOMAIN memory) = 2

\* C8 is checked under SpecDecode.
\* C8, as claimed: decode is skipped exactly when the output file exists
\* with the source's line count, and invoked in every other case.
C8_SkipIffSameLines ==
  (last_eval.called /\ last_eval.src.exists) =>
    IF last_eval.pre.exists /\ last_eval.pre.lines = last_eval.src.lines
      THEN ~last_eval.decoded
      ELSE last_eval.decoded

\* C8, amended: for an existing source file, decode is skipped and only
\* scoring runs exactly when the output file exists, is not empty and has
\* the source's line count; in every other case, an empty output for an
\* empty source included, decode is invoked before scoring.
C8_SkipIffNonEmptySameLines ==
  (last_eval.called /\ last_eval.src.exists) =>
    IF /\ last_eval.pre.exists
       /\ last_eval.pre.lines > 0
       /\ last_eval.pre.lines = last_eval.src.lines
      THEN /\ last_eval.branch = "skip"
           /\ ~last_eval.decoded
           /\ last_eval.scored \/ last_eval.exc = "ScoreError"
      ELSE /\ last_eval.branch = "decode"
           /\ last_eval.decoded
           /\ last_eval.scored \/ last_eval.exc \in {"DecodeError", "ScoreError"}

C8_Witness ==
  /\ last_eval.called
  /\ last_eval.src.exists
  /\ last_eval.src.lines = 0
  /\ last_eval.pre.exists
  /\ last_eval.pre.lines = 0
  /\ last_eval.branch = "decode"
  /\ last_eval.decoded

\* C9: in a search that runs to completion, Decoder.new is called once for
\* each distinct ensemble size of the trial list and for nothing else,
\* however many trials share a size and in whatever order they come.
C9_OneDecoderPerEnsemble ==
  pc = "returned" =>
    LET sizes == {trial_list[i][2] : i \in DOMAIN trial_list}
    IN  /\ Len(evaluated) = Len(trial_list)
        /\ Len(decoders_built) = Cardinality(sizes)
        /\ \A e \in sizes :
             Cardinality({i \in DOMAIN decoders_built : decoders_built[i] = e}) = 1

C9_Witness ==
  /\ pc = "returned"
  /\ Len(trial_list) = 3
  /\ trial_list[1][2] = 1
  /\ trial_list[2][2] = 2
  /\ trial_list[3][2] = 1
  /\ decoders_built = <<1, 2>>

\* C10: the load at the start of a call yields the memo (here one with at
\* least one trial) the call before wrote to scores.json: the same keys with
\* the same scores.
C10_RoundTrip ==
  (pc # "idle" /\ exc # "AssertionError" /\ file_at_start.exists
     /\ DOMAIN prev_written # {}) =>
    /\ load_ok
    /\ loaded = prev_written

\* C16: in a call that gets to the search, the trial list is a suggested
\* part followed by the random trials.  A suggested configuration, with its
\* alpha rounded to 2 decimals, is not in the suggested part when that key
\* is in the loaded memo; when it is not, it is in the suggested part, and
\* after a call that returns it has been evaluated and is in the memo and
\* in scores.json.  The random trials are as many as without suggestions.
C16_SuggestedNormalized ==
  (pc # "idle" /\ entered_try) =>
    LET sg == args.suggested
        key(i) == <<sg[i][1], sg[i][2], Round2(sg[i][3])>>
        n_sugg == Len(trial_list) - n_random
    IN  /\ n_sugg >= 0
        /\ n_random = NewTrials(args.trials, loaded)
        /\ \A i \in DOMAIN sg :
             IF key(i) \in DOMAIN loaded
               THEN \A j \in 1 .. n_sugg : trial_list[j] # key(i)
               ELSE /\ \E j \in 1 .. n_sugg : trial_list[j] = key(i)
                    /\ pc = "returned" =>
                         /\ \E e \in DOMAIN evaluated : evaluated[e].key = key(i)
                         /\ key(i) \in DOMAIN memory
                         /\ StrKey(key(i)) \in DOMAIN scores_json.data

C16_Witness ==
  /\ pc = "returned"
  /\ args.suggested = << <<2, 1, 504>> >>
  /\ args.trials = 2
  /\ Len(trial_list) = 3
  /\ trial_list[1] = <<2, 1, 50>>
  /\ <<2, 1, 50>> \in DOMAIN memory
  /\ Cardinality(DOMAIN memory) = 3

\* C18: no step of any tuning run, whether the run returns or raises and
\* wherever it raises, removes scores.json or a trial key stored in it.
C18_KeysNeverShrink ==
  [][/\ scores_json.exists => scores_json'.exists
     /\ DOMAIN scores_json.data \subseteq DOMAIN scores_json'.data]_vars

C18_Witness ==
  /\ pc = "raised"
  /\ exc = "AttributeError"
  /\ file_at_start.exists
  /\ Cardinality(DOMAIN file_at_start.data) = 2
  /\ args.trials = 0
  /\ scores_json = file_at_start

\* C19: a call that finds scores.json with K >= 1 entries, is asked for
\* trials N <= K, and whose suggestions (if any) are all among the stored
\* keys, returns a selection from the stored entries, having built no
\* decoder, made no decode_eval_file call and left the entries as they were.
C19_NothingLeftToDo ==
  (/\ pc \in {"returned", "raised"}
   /\ exc # "AssertionError"
   /\ file_at_start.exists
   /\ Cardinality(DOMAIN file_at_start.data) >= 1
   /\ Cardinality(DOMAIN file_at_start.data) >= args.trials
   /\ \A i \in DOMAIN args.suggested :
        StrKey(<<args.suggested[i][1], args.suggested[i][2],
                 Round2(args.suggested[i][3])>>) \in DOMAIN file_at_start.data)
  =>
    /\ pc = "returned"
    /\ decoders_built = <<>>
    /\ ~last_eval.called
    /\ evaluated = <<>>
    /\ scores_json = file_at_start
    /\ StrKey(best_params[1]) \in DOMAIN file_at_start.data

-----------------------------------------------------------------------------
(* The claims about run_tests, under Spec.                                 *)

\* C7: a run_tests that got to its test part (the tuning, if any, returned
\* and Decoder.new built the decoder) goes through every case of the suit in
\* turn, whatever the earlier cases did: every case ends with an error
\* artifact or a score artifact, and case "A", whose source file does not
\* exist, with an error artifact holding the error text.
C7_CasesIsolated ==
  (rt_pc \in {"done", "raised"} /\ test_params # <<>>
     /\ rt_exc # "DecoderError") =>
    /\ cases_done = [i \in DOMAIN Suit |-> Suit[i].name]
    /\ \A i \in DOMAIN Suit :
         test_files[Suit[i].name].err # "" \/ test_files[Suit[i].name].bleu
    /\ test_files["A"].err # ""

\* C17: when tune_decoder_params has returned, the dict it returned maps
\* 'beam_size', 'ensemble' and 'lp_alpha' to the three components of one
\* key of the memo, and a run_tests that has ended went through every case
\* with that beam size, ensemble size and alpha.
C17_ReturnsOneKey ==
  pc = "returned" =>
    \E k \in DOMAIN memory :
      /\ DOMAIN result = {"beam_size", "ensemble", "lp_alpha"}
      /\ result["beam_size"] = k[1]
      /\ result["ensemble"] = k[2]
      /\ result["lp_alpha"] = k[3]
      /\ rt_pc \in {"done", "raised"} =>
           /\ test_params = k
           /\ cases_done = [i \in DOMAIN Suit |-> Suit[i].name]

\* C12: a run_tests that got to its test part leaves, for every case of the
\* suit, either a score artifact or an error artifact and never both, and
\* an error artifact only for a case that failed in that run.
C12_ScoreXorError ==
  (rt_pc \in {"done", "raised"} /\ test_params # <<>>
     /\ rt_exc # "DecoderError") =>
    \A i \in DOMAIN Suit :
      LET f == test_files[Suit[i].name]
      IN  /\ f.bleu \/ f.err # ""
          /\ ~(f.bleu /\ f.err # "")
          /\ f.err # "" => \E j \in DOMAIN cases_failed :
                               cases_failed[j] = Suit[i].name

-----------------------------------------------------------------------------
(* The claims about Pipeline.run, under SpecRun.                           *)

\* What C11 lists: a required section is missing, or a case's source or
\* reference file is missing, or their line counts differ.
PreconditionBroken(c) ==
  \/ ~c.prep
  \/ ~c.trainer
  \/ ~c.tester
  \/ c.suit # "present"
  \/ \E i \in DOMAIN c.cases :
       \/ ~c.cases[i].src.exists
       \/ ~c.cases[i].ref.exists
       \/ c.cases[i].src.lines # c.cases[i].ref.lines

\* C11: when a required section (prep, trainer, tester, tester.suit) is
\* missing, or a case's source or reference file is missing, or their line
\* counts differ, every run raises in pre_checks: no phase is started, no
\* tuning, no decoder, no decode, and nothing is written.
C11_FailFast ==
  (run_pc # "idle" /\ PreconditionBroken(exp_config)) =>
    /\ run_pc = "raised"
    /\ run_exc \in {"AssertionError", "KeyError"}
    /\ started = <<>>
    /\ pc = "idle"
    /\ rt_pc = "idle"
    /\ decoders_built = <<>>
    /\ last_eval = NoEval
    /\ ~scores_json.exists

C11_Witness ==
  /\ run_pc = "raised"
  /\ exp_config.work_dir /\ exp_config.prep /\ exp_config.trainer
  /\ exp_config.tester /\ exp_config.suit = "present" /\ exp_config.script
  /\ exp_config.cases[1].src.exists /\ exp_config.cases[1].ref.exists
  /\ exp_config.cases[1].src.lines = exp_config.cases[1].ref.lines
  /\ exp_config.cases[2].src.exists /\ exp_config.cases[2].ref.exists
  /\ exp_config.cases[2].src.lines = 1 /\ exp_config.cases[2].ref.lines = 2
  /\ started = <<>>

====
